---- MODULE Spec2Model ----
\* GIFStream data preparation: the GOP orchestration script
\* (dataset_process/n3d_video_process.py) and the sample dataset
\* (examples/datasets/GIFStream_new.py), as state machines.
\*
\* The orchestration script is modelled from the start of its process.  Line
\* 215 passes type= to a store_true action, which argparse rejects, so a run
\* of the script ends there (Spec).  The scene loop of lines 222-290, the
\* keyframe expression of line 256 and the functions convertdynerftocolmapdb
\* and getcolmapsinglen3d are examined on their own inputs (SpecLoop,
\* SpecPlan, SpecDriver).
EXTENDS Integers, Sequences, FiniteSets, TLC

\* ---------------------------------------------------------------- bounds
MaxStart  == 1      \* startframe ranges over 0..MaxStart
MaxEnd    == 5      \* endframe ranges over 0..MaxEnd
MaxGOP    == 3      \* GOP ranges over 1..MaxGOP
MaxScenes == 2      \* scene folders under root_dir
MaxMp4    == 2      \* camera videos (and camera frame directories) per scene
MaxPoses  == 2      \* pose records of poses_bounds.npy: 1..MaxPoses

MaxCams    == 3     \* images (camera views) known to the parser: 1..MaxCams
MaxGopSize == 3     \* GOP_size of a Dataset ranges over 1..MaxGopSize
MaxStartFrame == 1  \* start_frame of a Dataset ranges over 0..MaxStartFrame
MaxPatch   == 2     \* patch_size, when given, ranges over 1..MaxPatch
ImgW == 3           \* width of a decoded frame, in pixels
ImgH == 2           \* height of a decoded frame, in pixels

MaxCamIds == 2      \* camera ids of a reconstruction: 1..MaxCamIds
MaxImages == 2      \* images of a reconstruction: 0..MaxImages

\* ------------------------------------------------------- program constants
\* A wait status on Unix is (exit code * ExitShift) + terminating signal.
ExitShift == 256
\* The exit status of a process is the low 8 bits of the value given to exit().
ExitMask  == 256
\* Exit status of the interpreter when an exception is not caught.
UncaughtStatus == 1

VARIABLES
    args,        \* the argument values of the command line / the namespace
    nScenes,     \* number of entries of os.listdir(root_dir)
    nCams,       \* number of .mp4 files / camera frame directories of a scene
    scene,       \* position of the scene loop (1-based)
    pc,          \* position of the script inside the scene loop body
    idx,         \* position of the per-camera extraction loop (0-based)
    png,         \* png[c]: camera directory c of the scene holds its frames
    frame_list,  \* the keyframes planned for the current scene
    fi,          \* position of the keyframe loop (1-based into frame_list)
    running,     \* external commands started and not yet finished
    blocked,     \* the script is waiting inside os.system / subprocess.call
    exit_code,   \* value last returned by os.system
    procExit,    \* exit status of the script's process, -1 while it runs
    failures,    \* external commands that have returned a non-zero value
    log          \* the steps performed for the current keyframe, in order

VARIABLES
    parser,      \* the Parser's calibration state other than Ks_dict
    Ks_dict,     \* parser.Ks_dict: camera_id -> principal point of K
    ds,          \* the Dataset's fields, indices included
    th,          \* th[t]: the locals of the __getitem__ call of accessor t
    heap         \* heap[t]: the array made by the .copy() of accessor t

dvars == <<parser, Ks_dict, ds, th, heap>>

VARIABLES
    poses,       \* the records of the scene's poses_bounds.npy, in file order
    proj         \* the files of the current colmap_<frame> project

fvars == <<poses, proj>>

VARIABLES
    colmap,      \* the reconstruction read by the Parser: cameras and images
    pr           \* the locals and dictionaries of Parser.__init__

qvars == <<colmap, pr>>

pvars == <<args, nScenes, nCams, scene, pc, idx, png, frame_list, fi,
           running, blocked, exit_code, procExit, failures, log>>

\* ------------------------------------------------------------ GOP planner
\* [f(x) for x in range(n)]
RECURSIVE RangeMap(_, _, _)
RangeMap(n, S, G) ==
    IF n <= 0 THEN << >>
    ELSE Append(RangeMap(n - 1, S, G), S + (n - 1) * G)

FrameListFloor(S, E, G) == RangeMap((E - S) \div G, S, G)

\* frame_list = [startframe + x*GOP for x in range((endframe-startframe+GOP-1)//GOP)]
FrameList(S, E, G) == RangeMap((E - S + G - 1) \div G, S, G)

\* ------------------------------------------------- reconstruction driver
\* The statements of getcolmapsinglen3d, in program order.
DriverStepsSwapped ==
    << "exhaustive_matcher", "feature_extractor", "point_triangulator",
       "image_undistorter", "rm_input", "normalize_sparse" >>

DriverSteps ==
    << "feature_extractor", "exhaustive_matcher", "point_triangulator",
       "image_undistorter", "rm_input", "normalize_sparse" >>

\* The steps of the driver that run an external command through os.system.
DriverCommands == { DriverSteps[i] : i \in 1..5 }

PosOf(step) == CHOOSE i \in 1..Len(DriverSteps) : DriverSteps[i] = step

DriverNext(step) == DriverSteps[PosOf(step) + 1]

\* Values os.system can return: exit codes 0, 1, 2 of the command and the
\* command being killed by signal 9.
WaitStatuses == { 0, 1 * ExitShift, 2 * ExitShift, 9 }

\* Values subprocess.call can return (the return code of the shell).
ReturnCodes == { 0, 1 }

FatalNever(code) == FALSE

\* if exit_code != 0: exit(exit_code)
Fatal(code) == code # 0

\* exit(n): the status seen by the parent is n truncated to eight bits.
ExitStatus(n) == n % ExitMask

Event(step, key, status) ==
    [scene |-> scene, step |-> step, key |-> key, status |-> status]

\* ------------------------------------------------- names and directories
\* The decimal digits of i >= 0, most significant first.
RECURSIVE Digits(_)
Digits(i) == IF i < 10 THEN << i >> ELSE Append(Digits(i \div 10), i % 10)

\* format(i, "02d"): the decimal digits of i, zero-padded to two places.
Pad2(i) == IF i < 10 THEN << 0, i >> ELSE Digits(i)

\* f"cam{i:02d}"
CamDir(i) == << "cam", Pad2(i) >>

\* f"cam{i:02d}.png" / cameraname + ".png"
CamPng(i) == << "cam", Pad2(i), ".png" >>

\* String comparison of two names "cam<digits>" or "cam<digits>.png".
LexLess(a, b) ==
    LET x == a[2]
        y == b[2]
        m == IF Len(x) < Len(y) THEN Len(x) ELSE Len(y)
    IN  \/ \E k \in 1..m : /\ \A j \in 1..(k - 1) : x[j] = y[j]
                           /\ x[k] < y[k]
        \/ /\ Len(x) < Len(y)
           /\ \A j \in 1..m : x[j] = y[j]

\* sorted(names)
SortedNames(names) ==
    CHOOSE q \in [1..Cardinality(names) -> names] :
        \A i, j \in 1..Cardinality(names) : i < j => LexLess(q[i], q[j])

\* The camera directories under <scene>/png.
PngDirs == { CamDir(c) : c \in DOMAIN png }

\* -------------------------------------------------------- pose converter
\* poses_bounds[:, :15].reshape(-1, 3, 5) of a file of n records: record i
\* holds its rotation and translation (named by id) and H, W, focal.
PoseBundle(n) ==
    [i \in 1..n |-> [id |-> i, H |-> 4 + i, W |-> 8 + i, focal |-> 20 + i]]

\* posetow2c_matrcs: the four inverse steps work on every record in place,
\* and the result list holds tmp[i] at position i.
PoseToW2C(ps) == [i \in 1..Len(ps) |-> [w2c_of |-> ps[i].id]]

ImageIdZeroBased(i) == i

\* imageid = str(i+1); cameraid = imageid; image_id=i+1
ImageId(i) == i + 1

\* db.add_camera(model, width, height, params): a new row whose id the
\* database assigns, one more than the rows it holds.
DbAddCamera(rows, model, width, height, params) ==
    Append(rows, [camera_id |-> Len(rows) + 1, model |-> model,
                  width |-> width, height |-> height, params |-> params])

\* db.add_image(name, camera_id, prior_q, prior_t, image_id)
DbAddImage(rows, name, camera_id, prior_q, prior_t, image_id) ==
    Append(rows, [image_id |-> image_id, name |-> name,
                  camera_id |-> camera_id, prior_q |-> prior_q,
                  prior_t |-> prior_t])

\* The project files before convertdynerftocolmapdb has written anything.
EmptyProject ==
    [input |-> {}, converted |-> FALSE, images_txt |-> << >>,
     cameras_txt |-> << >>, db_cameras |-> << >>, db_images |-> << >>]

\* The body of "for i in range(len(poses))" for records i, i+1, ...
\* (lines 81-115), acc holding what has been written so far.
RECURSIVE ConvertLoop(_, _, _)
ConvertLoop(ps, i, acc) ==
    IF i >= Len(ps) THEN acc
    ELSE
      LET m == PoseToW2C(ps)[i + 1]
          H == ps[i + 1].H
          W == ps[i + 1].W
          focal == ps[i + 1].focal
          pngname == CamPng(i)
          line == [kind |-> "image", image_id |-> ImageId(i),
                   q_of |-> m.w2c_of, t_of |-> m.w2c_of,
                   camera_id |-> ImageId(i), name |-> pngname]
          blank == [kind |-> "blank"]
          params == << focal, focal, W \div 2, H \div 2 >>
          cams == DbAddCamera(acc.db_cameras, 1, W, H, params)
          camera_id == cams[Len(cams)].camera_id
          cameraline == [camera_id |-> i + 1, model |-> "PINHOLE",
                         width |-> W, height |-> H, params |-> params]
      IN  ConvertLoop(ps, i + 1,
            [acc EXCEPT
               !.images_txt = Append(Append(@, line), blank),
               !.cameras_txt = Append(@, cameraline),
               !.db_cameras = cams,
               !.db_images = DbAddImage(@, pngname, camera_id, m.w2c_of,
                                        m.w2c_of, i + 1)])

\* convertdynerftocolmapdb: a fresh input.db and manual/ directory, then the
\* loop over the pose records (lines 47-126).
ConvertDynerfToColmapDb(project, ps) ==
    ConvertLoop(ps, 0,
        [project EXCEPT !.converted = TRUE, !.images_txt = << >>,
                        !.cameras_txt = << >>, !.db_cameras = << >>,
                        !.db_images = << >>])

\* The copies of lines 266-269 for the cameras before position upto:
\* camera directory ind of the sorted list gives input/cam<ind>.png.
StagedFiles(camera_names, frame, upto) ==
    { [name |-> CamPng(ind), src_dir |-> camera_names[ind + 1],
       src_frame |-> frame + 1] : ind \in 0..(upto - 1) }

\* The first camera of the sorted list whose frame is missing, or the
\* number of cameras when no frame is missing.
FirstMissing(camera_names) ==
    LET has(ind) == \E c \in DOMAIN png : CamDir(c) = camera_names[ind + 1] /\ png[c]
        n == Len(camera_names)
    IN  IF \A ind \in 0..(n - 1) : has(ind) THEN n
        ELSE CHOOSE ind \in 0..(n - 1) :
                ~has(ind) /\ \A j \in 0..(ind - 1) : has(j)

\* ------------------------------------------------- orchestration script
\* The add_argument calls of lines 214-219: the action of each argument and
\* whether a type= is passed with it.
ScriptArguments ==
    << [flag |-> "--root_dir", action |-> "store", has_type |-> TRUE],
       [flag |-> "--extract_frames", action |-> "store_true", has_type |-> TRUE],
       [flag |-> "--frame_rate", action |-> "store", has_type |-> TRUE],
       [flag |-> "--startframe", action |-> "store", has_type |-> TRUE],
       [flag |-> "--endframe", action |-> "store", has_type |-> TRUE],
       [flag |-> "--GOP", action |-> "store", has_type |-> TRUE] >>

\* parser.add_argument(flag, action=..., type=...): the store_true action
\* takes no type keyword, so passing one raises TypeError.
AddArgument(arg) ==
    IF arg.action = "store_true" /\ arg.has_type THEN "TypeError" ELSE "ok"

\* The start of the process: the command line and the scenes on disk.
PInit ==
    /\ args \in [startframe : 0..MaxStart, endframe : 0..MaxEnd,
                 GOP : 1..MaxGOP, extract_frames : BOOLEAN]
    /\ nScenes \in 1..MaxScenes
    /\ nCams \in 1..MaxMp4
    /\ scene = 1
    /\ pc = "argparse"
    /\ idx = 0
    /\ png = [c \in 0..(nCams - 1) |-> ~args.extract_frames]
    /\ frame_list = << >>
    /\ fi = 1
    /\ running = {}
    /\ blocked = FALSE
    /\ exit_code = 0
    /\ procExit = -1
    /\ failures = {}
    /\ log = << >>
    /\ \E n \in 1..MaxPoses : poses = PoseBundle(n)
    /\ proj = EmptyProject

\* Lines 213-220: the ArgumentParser is built and the command line parsed.
\* An add_argument call that raises ends the process with the traceback.
ParseArgs ==
    /\ pc = "argparse"
    /\ IF \E i \in DOMAIN ScriptArguments :
             AddArgument(ScriptArguments[i]) = "TypeError"
       THEN pc' = "exited" /\ procExit' = UncaughtStatus
       ELSE pc' = "scene" /\ UNCHANGED procExit
    /\ UNCHANGED <<args, nScenes, nCams, scene, idx, png, frame_list, fi,
                   running, blocked, exit_code, failures, log>>
    /\ UNCHANGED <<dvars, qvars>>
    /\ UNCHANGED fvars

\* for folder_name in os.listdir(args.root_dir): ... (lines 222-229)
SceneLoop ==
    /\ pc = "scene"
    /\ IF scene > nScenes
       THEN /\ pc' = "done"
            /\ procExit' = 0
            /\ UNCHANGED <<idx, png>>
       ELSE /\ pc' = IF args.extract_frames THEN "ffmpeg" ELSE "plan"
            /\ idx' = 0
            /\ png' = [c \in 0..(nCams - 1) |-> ~args.extract_frames]
            /\ UNCHANGED procExit
    /\ UNCHANGED <<args, nScenes, nCams, scene, frame_list, fi, running,
                   blocked, exit_code, failures, log>>
    /\ UNCHANGED <<dvars, qvars>>
    /\ UNCHANGED fvars

\* os.system(cmd) / subprocess.call(cmd, shell=True): the command is started
\* and the script waits for it.
Launch ==
    /\ pc \in DriverCommands \cup {"ffmpeg"}
    /\ ~blocked
    /\ running' = running \cup {pc}
    /\ blocked' = TRUE
    /\ UNCHANGED <<args, nScenes, nCams, scene, pc, idx, png, frame_list, fi,
                   exit_code, procExit, failures, log>>
    /\ UNCHANGED <<dvars, qvars>>
    /\ UNCHANGED fvars

\* subprocess.call(cmd, shell=True) returns; its value is discarded and the
\* camera loop goes on (lines 231-241).  A failed transcoder may or may not
\* have left the frames of the camera behind.
FfmpegReturn ==
    /\ pc = "ffmpeg"
    /\ blocked
    /\ \E rc \in ReturnCodes :
       \E ok \in (IF rc = 0 THEN {TRUE} ELSE BOOLEAN) :
          /\ png' = [png EXCEPT ![idx] = ok]
          /\ failures' = IF rc # 0 THEN failures \cup {"ffmpeg"} ELSE failures
    /\ running' = running \ {"ffmpeg"}
    /\ blocked' = FALSE
    /\ idx' = idx + 1
    /\ pc' = IF idx + 1 < nCams THEN "ffmpeg" ELSE "plan"
    /\ UNCHANGED <<args, nScenes, nCams, scene, frame_list, fi, exit_code,
                   procExit, log>>
    /\ UNCHANGED <<dvars, qvars>>
    /\ UNCHANGED fvars

\* camera_names = sorted(...); frame_list = [...] (lines 245-259)
Plan ==
    /\ pc = "plan"
    /\ frame_list' = FrameList(args.startframe, args.endframe, args.GOP)
    /\ fi' = 1
    /\ IF frame_list' = << >>
       THEN pc' = "scene" /\ scene' = scene + 1
       ELSE pc' = "stage" /\ scene' = scene
    /\ UNCHANGED <<args, nScenes, nCams, idx, png, running, blocked,
                   exit_code, procExit, failures, log>>
    /\ UNCHANGED <<dvars, qvars>>
    /\ UNCHANGED fvars

\* Staging of frame (keyframe+1) of every camera (lines 260-269); shutil.copy
\* raises when the frame of a camera is missing and the script dies.
Stage ==
    /\ pc = "stage"
    /\ LET camera_names == SortedNames(PngDirs)
           upto == FirstMissing(camera_names)
           staged == StagedFiles(camera_names, frame_list[fi], upto)
       IN  IF \A c \in DOMAIN png : png[c]
           THEN /\ log' = << Event("stage", frame_list[fi], 0) >>
                /\ pc' = "convert"
                /\ proj' = [EmptyProject EXCEPT !.input = staged]
                /\ UNCHANGED procExit
           ELSE /\ log' = << Event("stage", frame_list[fi], UncaughtStatus) >>
                /\ pc' = "exited"
                /\ proj' = [EmptyProject EXCEPT !.input = staged]
                /\ procExit' = UncaughtStatus
    /\ UNCHANGED <<args, nScenes, nCams, scene, idx, png, frame_list, fi,
                   running, blocked, exit_code, failures>>
    /\ UNCHANGED <<dvars, qvars>>
    /\ UNCHANGED poses

\* convertdynerftocolmapdb(scene, frame), then entry of getcolmapsinglen3d
\* up to its first command (lines 281, 128-144).
Convert ==
    /\ pc = "convert"
    /\ log' = Append(log, Event("convert", frame_list[fi], 0))
    /\ proj' = ConvertDynerfToColmapDb(proj, poses)
    /\ pc' = DriverSteps[1]
    /\ UNCHANGED <<args, nScenes, nCams, scene, idx, png, frame_list, fi,
                   running, blocked, exit_code, procExit, failures>>
    /\ UNCHANGED <<dvars, qvars>>
    /\ UNCHANGED poses

\* exit_code = os.system(cmd); if exit_code != 0: exit(exit_code)
\* (lines 146-175, one command per step)
DriverReturn ==
    /\ pc \in DriverCommands
    /\ blocked
    /\ \E st \in WaitStatuses :
          /\ exit_code' = st
          /\ log' = Append(log, Event(pc, frame_list[fi], st))
          /\ failures' = IF st # 0 THEN failures \cup {pc} ELSE failures
          /\ IF Fatal(st)
             THEN pc' = "exited" /\ procExit' = ExitStatus(st)
             ELSE pc' = DriverNext(pc) /\ UNCHANGED procExit
          /\ proj' = IF pc = "rm_input" /\ st = 0
                     THEN [proj EXCEPT !.input = {}] ELSE proj
    /\ running' = running \ {pc}
    /\ blocked' = FALSE
    /\ UNCHANGED <<args, nScenes, nCams, scene, idx, png, frame_list, fi>>
    /\ UNCHANGED <<dvars, qvars>>
    /\ UNCHANGED poses

\* Move the files of sparse/ into sparse/0 (lines 177-184); the function
\* returns.
NormalizeSparse ==
    /\ pc = "normalize_sparse"
    /\ log' = Append(log, Event("normalize_sparse", frame_list[fi], 0))
    /\ pc' = "returned"
    /\ UNCHANGED <<args, nScenes, nCams, scene, idx, png, frame_list, fi,
                   running, blocked, exit_code, procExit, failures>>
    /\ UNCHANGED <<dvars, qvars>>
    /\ UNCHANGED fvars

\* "for frame in frame_list" (line 259) after a keyframe is done: the next
\* keyframe, or the next scene after the last keyframe.
KeyframeLoop ==
    /\ pc = "returned"
    /\ IF fi < Len(frame_list)
       THEN fi' = fi + 1 /\ pc' = "stage" /\ scene' = scene
       ELSE fi' = fi /\ pc' = "scene" /\ scene' = scene + 1
    /\ UNCHANGED <<args, nScenes, nCams, idx, png, frame_list, running,
                   blocked, exit_code, procExit, failures, log>>
    /\ UNCHANGED <<dvars, qvars>>
    /\ UNCHANGED fvars

\* ------------------------------------------------------- sample dataset
\* Optional values: None, or a value that is present.
None == << >>
Some(v) == << v >>

Accessors == {1, 2}

\* np.arange(n)
Arange(n) == [i \in 1..n |-> i - 1]

DatasetIndicesMod(N, G, split, test_set, remove_set) ==
    LET indices == Arange(N * G)
        inTest(x) == (x % G) \in test_set
        notInTest(x) == (x % G) \notin test_set
        kept(x) == (x % G) \notin remove_set[1]
        bySplit == IF split = "train" THEN SelectSeq(indices, notInTest)
                   ELSE SelectSeq(indices, inTest)
    IN  IF remove_set # None THEN SelectSeq(bySplit, kept) ELSE bySplit

\* Dataset.__init__: self.indices (lines 335-343)
DatasetIndices(N, G, split, test_set, remove_set) ==
    LET indices == Arange(N * G)
        inTest(x) == (x \div G) \in test_set
        notInTest(x) == (x \div G) \notin test_set
        kept(x) == (x \div G) \notin remove_set[1]
        bySplit == IF split = "train" THEN SelectSeq(indices, notInTest)
                   ELSE SelectSeq(indices, inTest)
    IN  IF remove_set # None THEN SelectSeq(bySplit, kept) ELSE bySplit

GetItemCamByPosition(indices, item, G) == item \div G

\* cam = self.indices[item] // self.GOP_size
GetItemCam(indices, item, G) == indices[item + 1] \div G

GetItemFrameDiv(start_frame, item, G) == start_frame + (item \div G)

\* frame_idx = self.start_frame + item - (item // self.GOP_size) * self.GOP_size
GetItemFrame(start_frame, item, G) ==
    start_frame + item - (item \div G) * G

KAlias(t, camera_id) == [kind |-> "shared", at |-> camera_id]

\* K = self.parser.Ks_dict[camera_id].copy(): a reference to a fresh array
\* owned by the access.
KCopy(t, camera_id) == [kind |-> "local", at |-> t]

\* The array a reference denotes.
Deref(ref) == IF ref.kind = "local" THEN heap[ref.at] ELSE Ks_dict[ref.at]

\* image.shape after the undistortion crop of lines 361-369: (w, h)
ImageSize(camera_id) ==
    IF parser.params_dict[camera_id] > 0
    THEN << parser.roi_undist_dict[camera_id][3],
            parser.roi_undist_dict[camera_id][4] >>
    ELSE << ImgW, ImgH >>

Max(a, b) == IF a >= b THEN a ELSE b

\* np.random.randint(0, max(extent - patch_size, 1))
CropOffsets(extent, patch_size) == 0..(Max(extent - patch_size, 1) - 1)

GetItemPoseByItem(camtoworlds, cam, item) ==
    camtoworlds[(item % Len(camtoworlds)) + 1]

\* camtoworlds = self.parser.camtoworlds[cam]
GetItemPose(camtoworlds, cam, item) == camtoworlds[cam + 1]

\* "camera_id": camera_id - 1 if self.split == "train" else -1
SampleCameraId(split, camera_id) ==
    IF split = "train" THEN camera_id - 1 ELSE -1

IdleLocals ==
    [pc |-> "idle", item |-> 0, cam |-> 0, frame_idx |-> 0, camera_id |-> 0,
     K |-> None, x |-> 0, y |-> 0, ret |-> None]

\* The calibration state a finished Parser can hold for n images: every image
\* with its own camera or all images sharing camera 1; no camera or every
\* camera with distortion parameters.
ParserStates(n) ==
    { [camera_ids |-> ids,
       camtoworlds |-> [i \in 1..n |-> i],
       params_dict |-> [c \in 1..n |-> IF dist THEN 4 ELSE 0],
       roi_undist_dict |-> [c \in 1..n |-> <<0, 0, ImgW - 1, ImgH>>],
       mask_dict |-> [c \in 1..n |-> None]] :
         ids \in { [i \in 1..n |-> i], [i \in 1..n |-> 1] },
         dist \in BOOLEAN }

\* Ks_dict of a finished Parser for n cameras; the principal points differ
\* from camera to camera.
ParsedKs(n) == [c \in 1..n |-> [cx |-> ImgW + c, cy |-> ImgH + c]]

\* Parser(...) followed by Dataset(parser, split, patch_size, ...,
\* start_frame, GOP_size, test_set, remove_set).
DInit ==
    /\ \E n \in 1..MaxCams :
        /\ parser \in ParserStates(n)
        /\ Ks_dict = ParsedKs(n)
        /\ \E G \in 1..MaxGopSize, S \in 0..MaxStartFrame,
              split \in {"train", "test"},
              T \in SUBSET (0..(n - 1)),
              R \in {None} \cup { Some(r) : r \in SUBSET (0..(n - 1)) },
              ps \in {None} \cup { Some(k) : k \in 1..MaxPatch } :
             ds = [split |-> split, patch_size |-> ps, start_frame |-> S,
                   GOP_size |-> G, test_set |-> T, remove_set |-> R,
                   cameras_length |-> n,
                   indices |-> DatasetIndices(n, G, split, T, R)]
    /\ th = [t \in Accessors |-> IdleLocals]
    /\ heap = [t \in Accessors |-> [cx |-> 0, cy |-> 0]]

\* __getitem__(item), lines 349-353: camera and frame of the position and the
\* path of the image; the call then waits in imageio.imread.
GetItemIndex(t) ==
    /\ th[t].pc = "idle"
    /\ \E item \in 0..(Len(ds.indices) - 1) :
        LET cam == GetItemCam(ds.indices, item, ds.GOP_size)
            frame_idx == GetItemFrame(ds.start_frame, item, ds.GOP_size)
        IN  th' = [th EXCEPT ![t] =
                     [pc |-> "reading", item |-> item, cam |-> cam,
                      frame_idx |-> frame_idx, camera_id |-> 0,
                      K |-> None, x |-> 0, y |-> 0, ret |-> None]]
    /\ UNCHANGED <<parser, Ks_dict, ds, heap>>
    /\ UNCHANGED <<pvars, fvars, qvars>>

\* lines 353-359: imread has returned; the image is resized and the
\* calibration of the camera is fetched, K as a copy.
GetItemLoad(t) ==
    /\ th[t].pc = "reading"
    /\ LET camera_id == parser.camera_ids[th[t].cam + 1]
           K == KCopy(t, camera_id)
       IN  /\ th' = [th EXCEPT ![t].pc = "loaded",
                               ![t].camera_id = camera_id,
                               ![t].K = Some(K)]
           /\ heap' = IF K.kind = "local"
                      THEN [heap EXCEPT ![t] = Ks_dict[camera_id]]
                      ELSE heap
    /\ UNCHANGED <<parser, Ks_dict, ds>>
    /\ UNCHANGED <<pvars, fvars, qvars>>

\* lines 361-378: undistortion crop, then the random crop, which shifts the
\* principal point of K by the offset drawn.
GetItemCrop(t) ==
    /\ th[t].pc = "loaded"
    /\ IF ds.patch_size # None
       THEN \E x \in CropOffsets(ImageSize(th[t].camera_id)[1], ds.patch_size[1]),
               y \in CropOffsets(ImageSize(th[t].camera_id)[2], ds.patch_size[1]) :
              LET ref == th[t].K[1]
                  old == Deref(ref)
                  new == [cx |-> old.cx - x, cy |-> old.cy - y]
              IN  /\ th' = [th EXCEPT ![t].pc = "cropped", ![t].x = x, ![t].y = y]
                  /\ IF ref.kind = "local"
                     THEN heap' = [heap EXCEPT ![ref.at] = new]
                          /\ UNCHANGED Ks_dict
                     ELSE Ks_dict' = [Ks_dict EXCEPT ![ref.at] = new]
                          /\ UNCHANGED heap
       ELSE /\ th' = [th EXCEPT ![t].pc = "cropped"]
            /\ UNCHANGED <<heap, Ks_dict>>
    /\ UNCHANGED <<parser, ds>>
    /\ UNCHANGED <<pvars, fvars, qvars>>

\* lines 402-437: the sample record.  The time is the exact quotient
\* num / den; the division raises ZeroDivisionError when GOP_size is 1.
GetItemReturn(t) ==
    /\ th[t].pc = "cropped"
    /\ IF ds.GOP_size - 1 = 0
       THEN th' = [th EXCEPT ![t].pc = "raised",
                             ![t].ret = Some("ZeroDivisionError")]
       ELSE th' = [th EXCEPT ![t].pc = "returned",
                    ![t].ret = Some(
                       [K |-> Deref(th[t].K[1]),
                        camtoworld |-> GetItemPose(parser.camtoworlds,
                                                   th[t].cam, th[t].item),
                        image_id |-> th[t].item,
                        time |-> [num |-> th[t].frame_idx - ds.start_frame,
                                  den |-> ds.GOP_size - 1],
                        camera_id |-> SampleCameraId(ds.split, th[t].camera_id),
                        mask |-> parser.mask_dict[th[t].camera_id]])]
    /\ UNCHANGED <<parser, Ks_dict, ds, heap>>
    /\ UNCHANGED <<pvars, fvars, qvars>>

\* The caller has consumed the sample (or the exception): the locals of the
\* call are gone and the accessor can call __getitem__ again.
GetItemDone(t) ==
    /\ th[t].pc \in {"returned", "raised"}
    /\ th' = [th EXCEPT ![t] = IdleLocals]
    /\ heap' = [heap EXCEPT ![t] = [cx |-> 0, cy |-> 0]]
    /\ UNCHANGED <<parser, Ks_dict, ds>>
    /\ UNCHANGED <<pvars, fvars, qvars>>

PNext ==
    \/ ParseArgs
    \/ SceneLoop
    \/ Launch
    \/ FfmpegReturn
    \/ Plan
    \/ Stage
    \/ Convert
    \/ DriverReturn
    \/ NormalizeSparse
    \/ KeyframeLoop

\* The steps of the scene loop and of everything it calls (lines 222-290).
LNext ==
    \/ SceneLoop
    \/ Launch
    \/ FfmpegReturn
    \/ Plan
    \/ Stage
    \/ Convert
    \/ DriverReturn
    \/ NormalizeSparse
    \/ KeyframeLoop

\* The steps of convertdynerftocolmapdb followed by getcolmapsinglen3d.
FNext ==
    \/ Convert
    \/ Launch
    \/ DriverReturn
    \/ NormalizeSparse

vars == <<pvars, dvars, fvars, qvars>>

\* No Dataset exists while the orchestration script runs.
DIdle ==
    /\ parser = << >>
    /\ Ks_dict = << >>
    /\ ds = << >>
    /\ th = << >>
    /\ heap = << >>

\* The orchestration script is not running while a Dataset is in use.
PIdle ==
    /\ args = << >>
    /\ nScenes = 0
    /\ nCams = 0
    /\ scene = 0
    /\ pc = "off"
    /\ idx = 0
    /\ png = << >>
    /\ frame_list = << >>
    /\ fi = 0
    /\ running = {}
    /\ blocked = FALSE
    /\ exit_code = 0
    /\ procExit = -1
    /\ failures = {}
    /\ log = << >>
    /\ poses = << >>
    /\ proj = << >>

\* No Parser is being constructed.
QIdle ==
    /\ colmap = << >>
    /\ pr = << >>

\* ------------------------------------------------------ Parser.__init__
\* The camera model tags of a reconstruction.  The first six are the ones the
\* Parser names (lines 87-102); FULL_OPENCV is a COLMAP model it does not name.
CameraTypes ==
    { "SIMPLE_PINHOLE", "PINHOLE", "SIMPLE_RADIAL", "RADIAL", "OPENCV",
      "OPENCV_FISHEYE", "FULL_OPENCV" }

\* dict[key] = value
Put(d, key, v) == [ x \in (DOMAIN d) \cup {key} |-> IF x = key THEN v ELSE d[x] ]

\* A distortion coefficient read from camera cam, and the literal 0.0.
Coef(camera_id, name) == [cam |-> camera_id, coef |-> name]
Zero == [cam |-> 0, coef |-> "0.0"]

\* Lines 86-104: the two if/elif chains that assign the locals params and
\* camtype from the tag.  A tag neither chain names assigns nothing, so the
\* locals keep what the previous iteration left in them (old).
CameraModel(type_, camera_id, old) ==
    LET c(name) == Coef(camera_id, name)
        persp(ps) == [params |-> Some(ps), camtype |-> Some("perspective")]
        first == IF type_ = "SIMPLE_PINHOLE" THEN persp(<< >>)
                 ELSE IF type_ = "PINHOLE" THEN persp(<< >>)
                 ELSE old
    IN  IF type_ = "SIMPLE_RADIAL" THEN persp(<<c("k1"), Zero, Zero, Zero>>)
        ELSE IF type_ = "RADIAL" THEN persp(<<c("k1"), c("k2"), Zero, Zero>>)
        ELSE IF type_ = "OPENCV"
             THEN persp(<<c("k1"), c("k2"), c("p1"), c("p2")>>)
        ELSE IF type_ = "OPENCV_FISHEYE"
             THEN [params  |-> Some(<<c("k1"), c("k2"), c("k3"), c("k4")>>),
                   camtype |-> Some("fisheye")]
        ELSE first

\* The locals and dictionaries at the top of the image loop (lines 57-66).
ParserLocals ==
    [pc |-> "images", k |-> 0, type_ |-> None,
     local |-> [params |-> None, camtype |-> None],
     camera_ids |-> << >>, camera_names |-> << >>,
     keys |-> << >>, todo |-> << >>,
     Ks_dict |-> << >>, params_dict |-> << >>, imsize_dict |-> << >>,
     mask_dict |-> << >>, mapx_dict |-> << >>, mapy_dict |-> << >>,
     roi_undist_dict |-> << >>, error |-> None]

\* The images a reconstruction can hold, in the order manager.images
\* enumerates them: each taken by one of the cameras, each with its own name.
ImageLists ==
    LET Images == [camera_id : 1..MaxCamIds,
                   name : { CamPng(j) : j \in 0..(MaxImages - 1) }]
    IN  { im \in UNION { [1..n -> Images] : n \in 0..MaxImages } :
            \A i, j \in DOMAIN im : i # j => im[i].name # im[j].name }

\* A reconstruction of up to MaxImages images taken by cameras 1..MaxCamIds,
\* every camera with some model tag.
Reconstructions ==
    { [cameras |-> cs, images |-> im] :
        cs \in [1..MaxCamIds -> CameraTypes], im \in ImageLists }

\* np.argsort(names) for names that are all different: position i of the
\* result is the (1-based) index of the name with i - 1 names below it.
ArgSort(names) ==
    [i \in DOMAIN names |->
        CHOOSE j \in DOMAIN names :
            Cardinality({ m \in DOMAIN names : LexLess(names[m], names[j]) }) = i - 1]

ParserInit ==
    /\ colmap \in Reconstructions
    /\ pr = ParserLocals

\* Lines 67-111: one iteration of "for k in imdata".  Ks_dict is written
\* before the tag is looked at; reading camtype in the assert raises
\* UnboundLocalError when no iteration has assigned it yet.
ParseImage ==
    /\ pr.pc = "images"
    /\ pr.k < Len(colmap.images)
    /\ LET camera_id == colmap.images[pr.k + 1].camera_id
           type_     == colmap.cameras[camera_id]
           m         == CameraModel(type_, camera_id, pr.local)
           K         == [cam |-> camera_id, scaled |-> FALSE, undist |-> FALSE]
           entered   == [pr EXCEPT !.k = pr.k + 1,
                                   !.type_ = Some(type_),
                                   !.local = m,
                                   !.camera_ids = Append(pr.camera_ids, camera_id),
                                   !.Ks_dict = Put(pr.Ks_dict, camera_id, K)]
       IN  IF m.camtype = None
           THEN pr' = [entered EXCEPT !.pc = "error",
                                      !.error = Some("UnboundLocalError")]
           ELSE pr' = [entered EXCEPT
                         !.keys = IF camera_id \in DOMAIN pr.params_dict
                                  THEN pr.keys ELSE Append(pr.keys, camera_id),
                         !.params_dict = Put(pr.params_dict, camera_id, m.params[1]),
                         !.imsize_dict = Put(pr.imsize_dict, camera_id,
                                             [cam |-> camera_id, of |-> "colmap"]),
                         !.mask_dict = Put(pr.mask_dict, camera_id, None)]
    /\ UNCHANGED <<colmap, pvars, dvars, fvars>>

\* Lines 112-228: after the loop.  No image at all raises ValueError;
\* otherwise the names and the camera ids are put in the order of the sorted
\* names (lines 129-136), the dictionaries become attributes and every K and
\* image size is rescaled to the size of the frame actually on disk.
ParseFinish ==
    /\ pr.pc = "images"
    /\ pr.k = Len(colmap.images)
    /\ IF Len(colmap.images) = 0
       THEN pr' = [pr EXCEPT !.pc = "error", !.error = Some("ValueError")]
       ELSE LET camera_names == [i \in DOMAIN colmap.images |->
                                    colmap.images[i].name]
                inds == ArgSort(camera_names)
            IN
            pr' = [pr EXCEPT
                     !.pc = "undistort",
                     !.camera_names = [i \in DOMAIN inds |-> camera_names[inds[i]]],
                     !.camera_ids = [i \in DOMAIN inds |-> pr.camera_ids[inds[i]]],
                     !.todo = pr.keys,
                     !.Ks_dict = [c \in DOMAIN pr.Ks_dict |->
                                    [pr.Ks_dict[c] EXCEPT !.scaled = TRUE]],
                     !.imsize_dict = [c \in DOMAIN pr.Ks_dict |->
                                    [pr.imsize_dict[c] EXCEPT !.of = "actual"]]]
    /\ UNCHANGED <<colmap, pvars, dvars, fvars>>

\* Line 235: a camera without distortion parameters gets no remap tables.
SkipUndistortAll(params) == Len(params) >= 0

SkipUndistort(params) == Len(params) = 0

\* Lines 233-296: one iteration of "for camera_id in self.params_dict.keys()".
\* Line 234 rebinds the local params to the parameters of the camera.
\* The branch is chosen by the local camtype as the image loop left it.  In
\* the fisheye branch an all-False mask makes y_indices.min() raise
\* ValueError; whether the mask is empty depends on the coefficients.
UndistortCamera ==
    /\ pr.pc = "undistort"
    /\ pr.todo # << >>
    /\ LET camera_id == Head(pr.todo)
           params    == pr.params_dict[camera_id]
           camtype   == pr.local.camtype[1]
           bound     == [pr EXCEPT !.local.params = Some(params)]
           next      == [bound EXCEPT !.todo = Tail(pr.todo)]
           table     == [cam |-> camera_id, by |-> camtype]
           built(mask) ==
               [next EXCEPT
                  !.mapx_dict = Put(pr.mapx_dict, camera_id, table),
                  !.mapy_dict = Put(pr.mapy_dict, camera_id, table),
                  !.Ks_dict = Put(pr.Ks_dict, camera_id,
                                  [pr.Ks_dict[camera_id] EXCEPT !.undist = TRUE]),
                  !.roi_undist_dict = Put(pr.roi_undist_dict, camera_id, table),
                  !.imsize_dict = Put(pr.imsize_dict, camera_id,
                                      [cam |-> camera_id, of |-> "roi"]),
                  !.mask_dict = Put(pr.mask_dict, camera_id, mask)]
       IN  IF SkipUndistort(params)
           THEN pr' = next
           ELSE IF camtype = "perspective"
           THEN pr' = built(None)
           ELSE \E empty \in BOOLEAN :
                  pr' = IF empty
                        THEN [bound EXCEPT !.pc = "error",
                                           !.error = Some("ValueError")]
                        ELSE built(Some(table))
    /\ UNCHANGED <<colmap, pvars, dvars, fvars>>

\* Lines 298-302: the scene scale; the Parser is constructed.
ParseDone ==
    /\ pr.pc = "undistort"
    /\ pr.todo = << >>
    /\ pr' = [pr EXCEPT !.pc = "done"]
    /\ UNCHANGED <<colmap, pvars, dvars, fvars>>

QNext ==
    \/ ParseImage
    \/ ParseFinish
    \/ UndistortCamera
    \/ ParseDone

InitParser == PIdle /\ DIdle /\ ParserInit

SpecParser == InitParser /\ [][QNext]_vars

\* One caller accessing the Dataset, one access at a time.
DNext ==
    \/ GetItemIndex(1)
    \/ GetItemLoad(1)
    \/ GetItemCrop(1)
    \/ GetItemReturn(1)
    \/ GetItemDone(1)

\* Several callers (loader workers) accessing the Dataset, their accesses
\* interleaved statement by statement.
CNext ==
    \/ \E t \in Accessors : GetItemIndex(t)
    \/ \E t \in Accessors : GetItemLoad(t)
    \/ \E t \in Accessors : GetItemCrop(t)
    \/ \E t \in Accessors : GetItemReturn(t)
    \/ \E t \in Accessors : GetItemDone(t)

\* The default Dataset arguments other than split, patch_size and GOP_size.
CInit ==
    /\ DInit
    /\ ds.test_set = {0}
    /\ ds.remove_set = None
    /\ ds.start_frame = 0

Init == PInit /\ DIdle /\ QIdle

\* The scene loop of line 222 entered with a namespace: the values of
\* startframe, endframe, GOP and extract_frames, the scenes under root_dir,
\* their camera videos or frame directories and their pose records.
InitLoop ==
    /\ args \in [startframe : 0..MaxStart, endframe : 0..MaxEnd,
                 GOP : 1..MaxGOP, extract_frames : BOOLEAN]
    /\ nScenes \in 1..MaxScenes
    /\ nCams \in 1..MaxMp4
    /\ scene = 1
    /\ pc = "scene"
    /\ idx = 0
    /\ png = [c \in 0..(nCams - 1) |-> ~args.extract_frames]
    /\ frame_list = << >>
    /\ fi = 1
    /\ running = {}
    /\ blocked = FALSE
    /\ exit_code = 0
    /\ procExit = -1
    /\ failures = {}
    /\ log = << >>
    /\ \E n \in 1..MaxPoses : poses = PoseBundle(n)
    /\ proj = EmptyProject
    /\ DIdle
    /\ QIdle

\* The inputs of the keyframe expression of line 256: start, end and GOP.
InitPlan ==
    /\ args \in [startframe : 0..MaxStart, endframe : 0..MaxEnd,
                 GOP : 1..MaxGOP, extract_frames : BOOLEAN]
    /\ nScenes = 1
    /\ nCams = 1
    /\ scene = 1
    /\ pc = "plan"
    /\ idx = 0
    /\ png = [c \in 0..0 |-> TRUE]
    /\ frame_list = << >>
    /\ fi = 1
    /\ running = {}
    /\ blocked = FALSE
    /\ exit_code = 0
    /\ procExit = -1
    /\ failures = {}
    /\ log = << >>
    /\ poses = << >>
    /\ proj = EmptyProject
    /\ DIdle
    /\ QIdle

\* A caller runs convertdynerftocolmapdb(path, offset) and then
\* getcolmapsinglen3d(path, offset) on a scene with a poses_bounds.npy and a
\* colmap_<offset>/input directory holding one image per camera directory.
InitDriver ==
    /\ args = << >>
    /\ nScenes = 1
    /\ nCams \in 1..MaxMp4
    /\ scene = 1
    /\ pc = "convert"
    /\ idx = 0
    /\ png = [c \in 0..(nCams - 1) |-> TRUE]
    /\ \E offset \in 0..MaxEnd : frame_list = << offset >>
    /\ fi = 1
    /\ running = {}
    /\ blocked = FALSE
    /\ exit_code = 0
    /\ procExit = -1
    /\ failures = {}
    /\ log = << >>
    /\ \E n \in 1..MaxPoses : poses = PoseBundle(n)
    /\ proj = [EmptyProject EXCEPT
                 !.input = StagedFiles(SortedNames(PngDirs), frame_list[1], nCams)]
    /\ DIdle
    /\ QIdle

InitData == PIdle /\ DInit /\ QIdle

InitConc == PIdle /\ CInit /\ QIdle

\* The orchestration script, run as a process.
Spec == Init /\ [][PNext]_vars

\* The scene loop of the script (lines 222-290) on a given namespace.
SpecLoop == InitLoop /\ [][LNext]_vars

\* The keyframe list computed from start, end and GOP.
SpecPlan == InitPlan /\ [][Plan]_vars

\* The pose converter and the reconstruction driver, called for one keyframe.
SpecDriver == InitDriver /\ [][FNext]_vars

\* A Dataset read by one caller.
SpecData == InitData /\ [][DNext]_vars

\* A Dataset read by concurrent callers.
SpecConc == InitConc /\ [][CNext]_vars

\* ------------------------------------------------------------ properties
\* The script is inside the keyframe loop: frame_list has been planned.
InKeyframeLoop ==
    pc \in {"stage", "convert", "normalize_sparse", "returned"} \cup DriverCommands

\* ceil(a / b) for a >= 0, b >= 1: the least n with n * b >= a.
CeilDiv(a, b) == CHOOSE n \in 0..a : n * b >= a /\ (n = 0 \/ (n - 1) * b < a)

\* C1: for start S, end E > S and GOP G >= 1 the planned keyframe list is
\* exactly S + k*G for k = 0 .. ceil((E-S)/G) - 1, ascending, no duplicates.
C1_KeyframeList ==
    (InKeyframeLoop /\ args.endframe > args.startframe) =>
        /\ Len(frame_list) = CeilDiv(args.endframe - args.startframe, args.GOP)
        /\ \A k \in 0..(Len(frame_list) - 1) :
              frame_list[k + 1] = args.startframe + k * args.GOP
        /\ \A i, j \in 1..Len(frame_list) :
              i < j => frame_list[i] < frame_list[j]

\* The range is not a multiple of the GOP: start 1, end 5, GOP 3 plans 1 and 4.
C1_Witness ==
    /\ pc = "stage"
    /\ args.startframe = 1 /\ args.endframe = 5 /\ args.GOP = 3
    /\ frame_list = <<1, 4>>

\* The driver's entries of the log of the current keyframe.
IsDriverEvent(e) ==
    e.step \in {"feature_extractor", "exhaustive_matcher", "point_triangulator",
                "image_undistorter", "rm_input", "normalize_sparse"}

DriverLog == SelectSeq(log, IsDriverEvent)

\* C2: for one keyframe the driver's steps happen in the order feature
\* extraction, matching, triangulation, undistortion, removal of the input
\* directory, normalisation of sparse/0; a step starts only after the one
\* before it ended with status zero, and at most one command is running.
C2_DriverOrder ==
    LET order == << "feature_extractor", "exhaustive_matcher",
                    "point_triangulator", "image_undistorter", "rm_input",
                    "normalize_sparse" >>
        d == DriverLog
    IN  /\ Cardinality(running) <= 1
        /\ Len(d) <= 6
        /\ \A i \in 1..Len(d) : d[i].step = order[i]
        /\ \A i \in 1..(Len(d) - 1) : d[i].status = 0
        /\ \A c \in running :
              /\ c \in DriverCommands => (Len(d) < 6 /\ c = order[Len(d) + 1])
              /\ \A i \in 1..Len(d) : d[i].status = 0

\* A keyframe whose six driver steps have all been performed.
C2_Witness ==
    /\ Len(DriverLog) = 6
    /\ DriverLog[6].step = "normalize_sparse"
    /\ DriverLog[5].step = "rm_input"

\* Some command of the reconstruction driver has returned a non-zero value.
DriverFailed ==
    failures \cap {"feature_extractor", "exhaustive_matcher",
                   "point_triangulator", "image_undistorter", "rm_input"} # {}

\* C3: once a driver step has returned a non-zero status the script performs
\* no further step: none of that keyframe, of a later keyframe or of a later
\* scene, and no retry.
C3_NoStepAfterDriverFailure == [][DriverFailed => UNCHANGED pvars]_pvars

\* The matcher has failed after a successful feature extraction, with steps
\* of this keyframe, a later keyframe and a later scene still to be done.
C3_Witness ==
    /\ failures = {"exhaustive_matcher"}
    /\ pc = "exited"
    /\ Len(DriverLog) = 2
    /\ DriverLog[1].status = 0
    /\ proj.input # {}
    /\ fi < Len(frame_list)
    /\ scene < nScenes

\* C5: the failure of any external command of a run, the transcoder
\* included, ends the run: no camera is extracted and no keyframe is staged,
\* converted or reconstructed after it.
C5_AnyToolFailureEndsRun == [][failures # {} => UNCHANGED pvars]_pvars

\* C4: when a driver command ends with a non-zero status, the script's
\* process terminates with a non-zero exit status, the value the command
\* invocation returned.
C4_ExitStatusCarriesFailure ==
    (pc = "exited" /\ DriverFailed) =>
        (procExit # 0 /\ procExit = exit_code)

\* The frames of the GOP of the k-th planned keyframe: [kf, kf + GOP).
GopOf(k) == frame_list[k]..(frame_list[k] + args.GOP - 1)

\* The configured frame range [startframe, endframe).
FrameRange == args.startframe..(args.endframe - 1)

\* C16 as stated: for E > S and G >= 1 the GOPs of the planned keyframes are
\* pairwise disjoint, every frame of [S, E) lies in exactly one GOP, and no
\* GOP contains a frame outside [S, E).
C16_GopsPartitionRange ==
    (InKeyframeLoop /\ args.endframe > args.startframe) =>
        /\ \A j, k \in 1..Len(frame_list) : j # k => GopOf(j) \cap GopOf(k) = {}
        /\ \A f \in FrameRange :
              Cardinality({ k \in 1..Len(frame_list) : f \in GopOf(k) }) = 1
        /\ \A k \in 1..Len(frame_list) : GopOf(k) \subseteq FrameRange

\* C16 (amended): the GOPs are pairwise disjoint and every frame of [S, E)
\* lies in exactly one GOP; every GOP starts inside [S, E), every GOP but the
\* last lies inside [S, E), and the last one extends past E by fewer than G
\* frames, by none when G divides E - S.
C16_GopsCoverRange ==
    (InKeyframeLoop /\ args.endframe > args.startframe) =>
        LET n == Len(frame_list)
        IN  /\ \A j, k \in 1..n : j # k => GopOf(j) \cap GopOf(k) = {}
            /\ \A f \in FrameRange :
                  Cardinality({ k \in 1..n : f \in GopOf(k) }) = 1
            /\ \A k \in 1..n : frame_list[k] \in FrameRange
            /\ \A k \in 1..(n - 1) : GopOf(k) \subseteq FrameRange
            /\ \A f \in GopOf(n) : f < args.endframe + args.GOP - 1
            /\ (args.endframe - args.startframe) % args.GOP = 0
                  => GopOf(n) \subseteq FrameRange

\* Start 0, end 5, GOP 3: the GOP of keyframe 3 holds frame 5, past the end.
C16_Witness ==
    /\ InKeyframeLoop
    /\ args.startframe = 0 /\ args.endframe = 5 /\ args.GOP = 3
    /\ Len(frame_list) = 2
    /\ 5 \in GopOf(2)
    /\ 2 \in GopOf(1)

\* The image-prior records of images.txt (every other line is blank).
ImageRecords == SelectSeq(proj.images_txt, LAMBDA l : l.kind = "image")

\* C12: a scene with N pose records yields exactly N priors in input order:
\* the i-th image record, camera record and database camera and image rows
\* come from pose record i and carry image id i+1, camera id i+1 and the
\* name cam{i:02d}.png; nothing is dropped, duplicated or reordered.
C12_PriorsInPoseOrder ==
    proj.converted =>
        LET N == Len(poses)
        IN  /\ Len(proj.images_txt) = 2 * N
            /\ Len(ImageRecords) = N
            /\ Len(proj.cameras_txt) = N
            /\ Len(proj.db_cameras) = N
            /\ Len(proj.db_images) = N
            /\ \A i \in 0..(N - 1) :
                 LET name == << "cam", << i \div 10, i % 10 >>, ".png" >>
                     pose == poses[i + 1]
                 IN  /\ proj.images_txt[2 * i + 1] = ImageRecords[i + 1]
                     /\ proj.images_txt[2 * i + 2].kind = "blank"
                     /\ ImageRecords[i + 1].image_id = i + 1
                     /\ ImageRecords[i + 1].camera_id = i + 1
                     /\ ImageRecords[i + 1].name = name
                     /\ ImageRecords[i + 1].q_of = pose.id
                     /\ ImageRecords[i + 1].t_of = pose.id
                     /\ proj.cameras_txt[i + 1].camera_id = i + 1
                     /\ proj.cameras_txt[i + 1].width = pose.W
                     /\ proj.cameras_txt[i + 1].height = pose.H
                     /\ proj.db_cameras[i + 1].camera_id = i + 1
                     /\ proj.db_cameras[i + 1].width = pose.W
                     /\ proj.db_cameras[i + 1].height = pose.H
                     /\ proj.db_images[i + 1].image_id = i + 1
                     /\ proj.db_images[i + 1].camera_id = i + 1
                     /\ proj.db_images[i + 1].name = name
                     /\ proj.db_images[i + 1].prior_q = pose.id
                     /\ proj.db_images[i + 1].prior_t = pose.id

\* A converted project of two pose records; the second gives cam01.png.
C12_Witness ==
    /\ proj.converted
    /\ Len(poses) = 2
    /\ pc = "feature_extractor"
    /\ proj.db_images[2].name = << "cam", << 0, 1 >>, ".png" >>
    /\ proj.db_images[2].image_id = 2
    /\ ImageRecords[2].q_of = poses[2].id

\* The project has been staged and converted and input/ is still there.
ProjectReady ==
    /\ proj.converted
    /\ pc \in {"feature_extractor", "exhaustive_matcher", "point_triangulator",
               "image_undistorter", "rm_input"}

\* C13: in every keyframe project the image staged as cam{k:02d}.png is
\* frame keyframe+1 of the k-th camera directory in lexicographic order, and
\* the staged image names are exactly the image names of the prior records
\* and of the database.
C13_StagedMatchesPriors ==
    ProjectReady =>
        /\ \A f \in proj.input :
              \E k \in 0..(nCams - 1) :
                 /\ f.name = << "cam", << k \div 10, k % 10 >>, ".png" >>
                 /\ f.src_dir = << "cam", << k \div 10, k % 10 >> >>
                 /\ f.src_frame = frame_list[fi] + 1
        /\ { f.name : f \in proj.input }
              = { ImageRecords[i].name : i \in 1..Len(ImageRecords) }
        /\ { f.name : f \in proj.input }
              = { proj.db_images[i].name : i \in 1..Len(proj.db_images) }

\* ------------------------------------------------ properties of the Dataset
Range(f) == { f[i] : i \in DOMAIN f }

\* The (camera, frame) pair __getitem__ computes for access position p.
PairAt(p) ==
    << GetItemCam(ds.indices, p, ds.GOP_size),
       GetItemFrame(ds.start_frame, p, ds.GOP_size) >>

\* C6: an access at position p reads the sample of the global index
\* i = indices[p]: camera i div GOP_size, frame start_frame + (i mod GOP_size),
\* also when whole blocks have been filtered out of the index list.
C6_AccessReadsGlobalIndex ==
    \A t \in Accessors :
        th[t].pc # "idle" =>
            LET i == ds.indices[th[t].item + 1]
            IN  /\ th[t].cam = i \div ds.GOP_size
                /\ th[t].frame_idx = ds.start_frame + (i % ds.GOP_size)

\* An access past a block that a remove_set has filtered out, at a frame
\* other than the first of the GOP.
C6_Witness ==
    /\ th[1].pc = "loaded"
    /\ ds.remove_set # None
    /\ ds.indices[th[1].item + 1] # th[1].item
    /\ th[1].item % ds.GOP_size # 0
    /\ th[1].frame_idx > ds.start_frame

\* C7: index -> (camera, frame) is a bijection from 0..N*G-1 onto
\* {0..N-1} x {start_frame..start_frame+G-1}; within a split, distinct
\* access positions never give the same pair.
C7_PairsBijective ==
    LET N == ds.cameras_length
        G == ds.GOP_size
        positions == 0..(Len(ds.indices) - 1)
        product == (0..(N - 1)) \X (ds.start_frame..(ds.start_frame + G - 1))
    IN  /\ \A p, q \in positions : p # q => PairAt(p) # PairAt(q)
        /\ \A p \in positions : PairAt(p) \in product
        /\ Len(ds.indices) = N * G => { PairAt(p) : p \in positions } = product
        /\ \A t \in Accessors :
              th[t].pc # "idle" => << th[t].cam, th[t].frame_idx >> = PairAt(th[t].item)

\* The unfiltered Dataset of two cameras and three frames, read at its last
\* position.
C7_Witness ==
    /\ ds.cameras_length = 2 /\ ds.GOP_size = 3
    /\ Len(ds.indices) = 6
    /\ th[1].pc = "loaded" /\ th[1].item = 5
    /\ th[1].cam = 1 /\ th[1].frame_idx = ds.start_frame + 2

\* C8: index x is in the test split exactly when (x div G) is in test_set and
\* in the train split exactly when it is not; train and test are disjoint and
\* cover 0..N*G-1; a remove_set drops exactly the indices with (x div G) in
\* it and neither adds nor reorders indices.
C8_SplitMembership ==
    LET N == ds.cameras_length
        G == ds.GOP_size
        T == ds.test_set
        all == 0..(N * G - 1)
        inSplit(x) == IF ds.split = "train" THEN (x \div G) \notin T
                      ELSE (x \div G) \in T
        removed(x) == ds.remove_set # None /\ (x \div G) \in ds.remove_set[1]
        train == Range(DatasetIndices(N, G, "train", T, None))
        test == Range(DatasetIndices(N, G, "test", T, None))
    IN  /\ \A x \in all : x \in Range(ds.indices) <=> (inSplit(x) /\ ~removed(x))
        /\ Range(ds.indices) \subseteq all
        /\ \A i, j \in 1..Len(ds.indices) : i < j => ds.indices[i] < ds.indices[j]
        /\ train \cap test = {}
        /\ train \cup test = all
        /\ \A x \in all : x \in test <=> (x \div G) \in T

\* GOP_size 3, test_set {0}: index 2 is test (read here), index 3 is not.
C8_Witness ==
    /\ ds.split = "test" /\ ds.GOP_size = 3 /\ ds.test_set = {0}
    /\ ds.cameras_length = 2 /\ ds.remove_set = None
    /\ ds.indices = <<0, 1, 2>>
    /\ th[1].pc = "loaded" /\ th[1].item = 2

\* C9: every access returns a sample whose time is
\* (frame_index - start_frame)/(GOP_size - 1), lies in [0,1], is 0 for the
\* first frame of the GOP and 1 for the last, for every GOP size the
\* constructor accepts.
C9_TimeNormalised ==
    \A t \in Accessors :
        th[t].pc \in {"returned", "raised"} =>
            /\ th[t].pc = "returned"
            /\ LET time == th[t].ret[1].time
               IN  /\ time.num = th[t].frame_idx - ds.start_frame
                   /\ time.den = ds.GOP_size - 1
                   /\ time.den > 0
                   /\ 0 <= time.num /\ time.num <= time.den
                   /\ th[t].frame_idx = ds.start_frame => time.num = 0
                   /\ th[t].frame_idx = ds.start_frame + ds.GOP_size - 1
                         => time.num = time.den

\* C10: in any interleaving of accesses the parser's calibration state and
\* the index list stay as constructed; the principal-point shift of a random
\* crop goes to the copy of K owned by the access, so an access returns the
\* parsed K of its camera shifted by its own offset, and its camera's pose.
C10_AccessesIndependent ==
    /\ Ks_dict = ParsedKs(ds.cameras_length)
    /\ parser \in ParserStates(ds.cameras_length)
    /\ ds.indices = DatasetIndices(ds.cameras_length, ds.GOP_size, ds.split,
                                   ds.test_set, ds.remove_set)
    /\ \A t \in Accessors :
          /\ ds.patch_size = None => (th[t].x = 0 /\ th[t].y = 0)
          /\ th[t].pc = "returned" =>
                LET parsed == ParsedKs(ds.cameras_length)[th[t].camera_id]
                    sample == th[t].ret[1]
                IN  /\ sample.K = [cx |-> parsed.cx - th[t].x,
                                   cy |-> parsed.cy - th[t].y]
                    /\ sample.camtoworld = parser.camtoworlds[th[t].cam + 1]

\* Two accesses in flight on the same camera: one has returned an unshifted
\* K while the other has shifted its own K by a non-zero offset.
C10_Witness ==
    /\ ds.patch_size # None
    /\ th[1].pc = "returned" /\ th[1].x = 0
    /\ th[2].pc = "cropped" /\ th[2].x > 0
    /\ th[1].camera_id = th[2].camera_id
    /\ th[1].item # th[2].item

\* C11: the pose and the camera id of a sample depend only on its camera:
\* all frames of a camera get the pose of the keyframe calibration of that
\* camera, two accesses of the same camera return the same camera id, the
\* camera id is -1 outside the training split and the calibration camera id
\* minus one inside it.
C11_PoseAndIdPerCamera ==
    /\ \A t \in Accessors :
          th[t].pc = "returned" =>
            LET sample == th[t].ret[1]
                i == ds.indices[th[t].item + 1]
            IN  /\ sample.camtoworld = parser.camtoworlds[(i \div ds.GOP_size) + 1]
                /\ ds.split # "train" => sample.camera_id = -1
                /\ ds.split = "train" =>
                      sample.camera_id =
                          parser.camera_ids[(i \div ds.GOP_size) + 1] - 1
    /\ \A t, u \in Accessors :
          (th[t].pc = "returned" /\ th[u].pc = "returned"
             /\ th[t].cam = th[u].cam) =>
                /\ th[t].ret[1].camtoworld = th[u].ret[1].camtoworld
                /\ th[t].ret[1].camera_id = th[u].ret[1].camera_id

\* Two samples of the same camera at different frames of the GOP, training
\* split, returned side by side.
C11_Witness ==
    /\ ds.split = "train"
    /\ th[1].pc = "returned" /\ th[2].pc = "returned"
    /\ th[1].cam = th[2].cam
    /\ th[1].frame_idx # th[2].frame_idx
    /\ th[1].cam > 0
    /\ th[1].ret[1].camtoworld = th[2].ret[1].camtoworld

\* ------------------------------------------------------ Parser properties
\* The tags the Parser supports (lines 87-102).
SupportedTypes ==
    { "SIMPLE_PINHOLE", "PINHOLE", "SIMPLE_RADIAL", "RADIAL", "OPENCV",
      "OPENCV_FISHEYE" }

\* The camera ids referenced by the images of the reconstruction.
ReferencedCameras ==
    { colmap.images[i].camera_id : i \in DOMAIN colmap.images }

\* C14: whenever the image loop has met an image whose camera model tag is
\* not supported, parsing has failed and that camera has no calibration
\* record, wherever the image stands in the enumeration.
C14_UnsupportedTagIsFatal ==
    \A i \in 1..pr.k :
        colmap.cameras[colmap.images[i].camera_id] \notin SupportedTypes =>
            /\ pr.pc = "error"
            /\ colmap.images[i].camera_id \notin DOMAIN pr.params_dict

\* C15: once the Parser is constructed, every camera id referenced by an image
\* has an intrinsic matrix, a parameter vector, an image size and a mask
\* entry, and, when its parameters are non-empty, remap tables and an ROI;
\* the dictionaries hold no other camera.
C15_EveryCameraHasRecord ==
    pr.pc = "done" =>
        /\ DOMAIN pr.Ks_dict = ReferencedCameras
        /\ DOMAIN pr.params_dict = ReferencedCameras
        /\ DOMAIN pr.imsize_dict = ReferencedCameras
        /\ DOMAIN pr.mask_dict = ReferencedCameras
        /\ \A c \in ReferencedCameras :
              Len(pr.params_dict[c]) > 0 =>
                  /\ c \in DOMAIN pr.mapx_dict
                  /\ c \in DOMAIN pr.mapy_dict
                  /\ c \in DOMAIN pr.roi_undist_dict

\* A constructed Parser of two cameras, one without distortion and one with
\* remap tables.
C15_Witness ==
    /\ pr.pc = "done"
    /\ \E c, d \in ReferencedCameras :
          /\ Len(pr.params_dict[c]) = 0
          /\ c \notin DOMAIN pr.mapx_dict
          /\ Len(pr.params_dict[d]) > 0
          /\ d \in DOMAIN pr.mapx_dict
          /\ d \in DOMAIN pr.roi_undist_dict

\* C17: the remap tables of every camera with a supported tag and non-empty
\* distortion parameters were built by the branch of that camera's own tag.
C17_BranchFollowsOwnTag ==
    pr.pc \in {"undistort", "done"} =>
        \A c \in DOMAIN pr.mapx_dict :
            colmap.cameras[c] \in SupportedTypes =>
                pr.mapx_dict[c].by
                    = CameraModel(colmap.cameras[c], c, pr.local).camtype[1]

====
